---- MODULE Spec2Model ----
(***************************************************************************)
(* A model of botorch/utils/objective.py: the objective-weights transform, *)
(* the hard and the smoothed feasibility indicators, the two constraint    *)
(* applications and the deprecated soft constraint evaluator.              *)
(*                                                                         *)
(* Tensors are records [shape, data]: the shape is a sequence of axis      *)
(* sizes and the data are the elements in row-major order.  A floating     *)
(* point value v is the integer v * Unit; sums are exact, and products,    *)
(* quotients, exp and log round to the nearest 1/Unit.                     *)
(*                                                                         *)
(* Every function of the module is pure, so a behaviour is one call: Init  *)
(* draws the function and its arguments, and the function's action runs    *)
(* the whole call and records what it returned or raised, how many times   *)
(* it invoked a constraint callable and how many warnings it emitted.      *)
(***************************************************************************)
EXTENDS Integers, Sequences, FiniteSets

VARIABLES op, pc, args, out

vars == <<op, pc, args, out>>

(***************************************************************************)
(* Bounds of the model.                                                    *)
(***************************************************************************)
MaxN == 2       \* elements of a batch whose values are enumerated
MaxK == 2       \* constraints in a list (and entries of an eta tensor)
MaxDim == 2     \* size of one axis
MaxRank == 3    \* axes of a tensor
Tol == 3        \* floating tolerance, in 1/Unit

(***************************************************************************)
(* Fixed-point arithmetic.                                                 *)
(***************************************************************************)
Unit == 1000

RDiv(a, b) == (2 * a + b) \div (2 * b)

MulDiv(a, b, c) == (a \div c) * b + ((a % c) * b + c \div 2) \div c

Mul(a, b) == RDiv(a * b, Unit)

\* a / b; a zero divisor gives the signed infinity of floating point, here the
\* largest magnitude of the model
Div(a, b) ==
    IF b > 0 THEN MulDiv(a, Unit, b)
    ELSE IF b < 0 THEN MulDiv(-a, Unit, -b)
    ELSE IF a < 0 THEN -(Unit * Unit * Unit)
    ELSE Unit * Unit * Unit

Add(a, b) == a + b

Abs(a) == IF a < 0 THEN -a ELSE a

Max(a, b) == IF a < b THEN b ELSE a

Min0(x) == IF x < 0 THEN x ELSE 0

\* round(Unit * e^-n) for n = 0..7
ExpTab == <<1000, 368, 135, 50, 18, 7, 2, 1>>

RECURSIVE ExpSeries(_, _, _)
ExpSeries(term, f, k) ==
    IF k > 8 \/ term = 0 THEN 0
    ELSE term + ExpSeries(RDiv(term * f, k * Unit), f, k + 1)

ExpNeg(x) ==
    IF x <= -8 * Unit THEN 0
    ELSE LET n == (-x) \div Unit
             f == -((-x) % Unit)
         IN  RDiv(ExpTab[n + 1] * ExpSeries(Unit, f, 1), Unit)

\* Tensor.exp(), elementwise
Exp(x) ==
    IF x <= 0 THEN ExpNeg(x)
    ELSE IF ExpNeg(-x) = 0 THEN Unit * Unit
    ELSE RDiv(Unit * Unit, ExpNeg(-x))

RECURSIVE AtanhSeries(_, _, _)
AtanhSeries(term, z2, j) ==
    IF j > 6 \/ term = 0 THEN 0
    ELSE RDiv(term, 2 * j + 1) + AtanhSeries(RDiv(term * z2, Unit), z2, j + 1)

\* log(1 + y) for y >= 0
Log1p(y) ==
    LET z == RDiv(y * Unit, 2 * Unit + y)
    IN  2 * AtanhSeries(z, RDiv(z * z, Unit), 0)

\* log(y) for y >= 1
RECURSIVE Ln(_)
Ln(y) == IF y >= 2718 THEN Unit + Ln(MulDiv(y, 1000, 2718)) ELSE Log1p(y - Unit)

\* torch.sigmoid, elementwise
sigmoid(x) ==
    IF x >= 0 THEN RDiv(Unit * Unit, Unit + ExpNeg(-x))
    ELSE RDiv(ExpNeg(x) * Unit, Unit + ExpNeg(x))

\* botorch.utils.safe_math.logexpit: log(sigmoid(x)), stable on the whole line
logexpit(x) == IF x >= 0 THEN -Log1p(ExpNeg(-x)) ELSE x - Log1p(ExpNeg(x))

\* botorch.utils.safe_math.log_fatmoid: the log of a sigmoid whose tails decay
\* polynomially, here (1 + x / (1 + |x|)) / 2
log_fatmoid(x) ==
    IF x >= 0 THEN Min0(Ln(Unit + 2 * x) - Ln(2 * Unit + 2 * x))
    ELSE -Ln(2 * Unit - 2 * x)

(***************************************************************************)
(* Tensors.                                                                *)
(***************************************************************************)
RECURSIVE Numel(_)
Numel(shape) == IF shape = <<>> THEN 1 ELSE Head(shape) * Numel(Tail(shape))

\* shape[:-1]
Lead(shape) == SubSeq(shape, 1, Len(shape) - 1)

\* the value a failed call carries instead of a tensor
NoValue == [shape |-> <<>>, data |-> <<>>]

Full(shape, v) == [shape |-> shape, data |-> [j \in 1..Numel(shape) |-> v]]

\* a tensor of distinct elements: base, base + Unit, ...
Ramp(shape, base) ==
    [shape |-> shape, data |-> [j \in 1..Numel(shape) |-> base + (j - 1) * Unit]]

Map1(F(_), A) == [shape |-> A.shape, data |-> [j \in 1..Len(A.data) |-> F(A.data[j])]]

PadTo(s, r) == [i \in 1..r |-> IF i <= r - Len(s) THEN 1 ELSE s[i - (r - Len(s))]]

Broadcastable(s, t) ==
    LET r == Max(Len(s), Len(t))
        a == PadTo(s, r)
        b == PadTo(t, r)
    IN  \A i \in 1..r : a[i] = b[i] \/ a[i] = 1 \/ b[i] = 1

BShape(s, t) ==
    LET r == Max(Len(s), Len(t))
        a == PadTo(s, r)
        b == PadTo(t, r)
    IN  [i \in 1..r |-> IF a[i] = 1 THEN b[i] ELSE a[i]]

Stride(shape, i) == Numel(SubSeq(shape, i + 1, Len(shape)))

RECURSIVE SrcIndex(_, _, _, _)
\* the offset in a tensor of (padded) shape a of the element broadcast to offset j
\* of a tensor of shape o, summed over the axes i..Len(o)
SrcIndex(j, o, a, i) ==
    IF i > Len(o) THEN 0
    ELSE (IF a[i] = 1 THEN 0 ELSE ((j \div Stride(o, i)) % o[i]) * Stride(a, i))
         + SrcIndex(j, o, a, i + 1)

\* an elementwise binary operation with broadcasting; NoValue when the shapes do
\* not broadcast (a RuntimeError) or an operand is already NoValue
Map2(F(_, _), A, B) ==
    IF A = NoValue \/ B = NoValue \/ ~Broadcastable(A.shape, B.shape) THEN NoValue
    ELSE LET o == BShape(A.shape, B.shape)
             a == PadTo(A.shape, Len(o))
             b == PadTo(B.shape, Len(o))
         IN  [shape |-> o,
              data |-> [j \in 1..Numel(o) |->
                          F(A.data[SrcIndex(j - 1, o, a, 1) + 1],
                            B.data[SrcIndex(j - 1, o, b, 1) + 1])]]

unsqueeze(A) == [shape |-> Append(A.shape, 1), data |-> A.data]

squeeze(A) ==
    IF Len(A.shape) > 0 /\ A.shape[Len(A.shape)] = 1
    THEN [shape |-> Lead(A.shape), data |-> A.data]
    ELSE A

clamp_min0(x) == Max(x, 0)

(***************************************************************************)
(* Constraint callables.  A callable is known by the tensor it returns for *)
(* the sample batch: "const" returns v at every element, "alt" returns lo  *)
(* at the odd and hi at the even elements, "fixed" returns the tensor t.   *)
(***************************************************************************)
Const(v) == [kind |-> "const", v |-> v]

Alt(lo, hi) == [kind |-> "alt", lo |-> lo, hi |-> hi]

Fixed(t) == [kind |-> "fixed", t |-> t]

ConEval(c, samples) ==
    LET s == Lead(samples.shape)
    IN  CASE c.kind = "const" -> Full(s, c.v)
          [] c.kind = "alt" ->
                [shape |-> s,
                 data |-> [j \in 1..Numel(s) |-> IF j % 2 = 1 THEN c.lo ELSE c.hi]]
          [] OTHER -> c.t

(***************************************************************************)
(* What a call did: the exception it raised ("none" when it returned), the *)
(* value it returned, the constraint callables it invoked, the warnings it *)
(* emitted, and the shape the feasibility weight had when it was           *)
(* multiplied into the objective.                                          *)
(***************************************************************************)
Outcome(raised, ret, ncalls, nwarn, wshape) ==
    [raised |-> raised, ret |-> ret, ncalls |-> ncalls, nwarn |-> nwarn,
     wshape |-> wshape]

NotCalled == Outcome("none", NoValue, 0, 0, <<>>)

CountMismatch == "ValueError: Number of provided constraints and number of provided etas do not match."

EtaNotPositive == "ValueError: eta must be positive."

ShapeError == "RuntimeError: shapes do not broadcast"

ArgumentError == "TypeError: takes 1 positional argument but 2 were given"

(***************************************************************************)
(* get_objective_weights_transform.  weights is [given, w]; the callable   *)
(* returned is known by its kind and by the positional arguments it takes. *)
(***************************************************************************)
get_objective_weights_transform(weights) ==
    IF ~weights.given
    THEN [kind |-> "squeeze", maxargs |-> 1, w |-> <<>>]
    ELSE [kind |-> "_objective", maxargs |-> 2, w |-> weights.w]

RECURSIVE Dot(_, _, _, _)
Dot(data, base, w, i) ==
    IF i > Len(w) THEN 0
    ELSE Mul(data[base + i], w[i]) + Dot(data, base, w, i + 1)

\* torch.einsum("...m, m", [Y, weights])
einsum(Y, w) ==
    IF Len(Y.shape) = 0 \/ Y.shape[Len(Y.shape)] # Len(w) THEN NoValue
    ELSE [shape |-> Lead(Y.shape),
          data |-> [j \in 1..Numel(Lead(Y.shape)) |->
                      Dot(Y.data, (j - 1) * Len(w), w, 1)]]

\* f(Y) when nargs = 1, f(Y, X) when nargs = 2
CallTransform(f, Y, nargs) ==
    IF nargs > f.maxargs THEN Outcome(ArgumentError, NoValue, 0, 0, <<>>)
    ELSE IF f.kind = "squeeze" THEN Outcome("none", squeeze(Y), 0, 0, <<>>)
    ELSE IF einsum(Y, f.w) = NoValue THEN Outcome(ShapeError, NoValue, 0, 0, <<>>)
    ELSE Outcome("none", einsum(Y, f.w), 0, 0, <<>>)

(***************************************************************************)
(* compute_feasibility_indicator.  constraints is [given, list].           *)
(***************************************************************************)
IsNeg_orzero(x) == x <= 0

\* constraint(samples) < 0
IsNeg(x) == x < 0

And(a, b) == a /\ b

RECURSIVE AndAll(_, _, _, _)
AndAll(ind, list, samples, i) ==
    IF i > Len(list) THEN ind
    ELSE AndAll(Map2(And, ind, Map1(IsNeg, ConEval(list[i], samples))),
                list, samples, i + 1)

compute_feasibility_indicator(constraints, samples) ==
    LET ones == Full(Lead(samples.shape), TRUE)
        ind == IF constraints.given THEN AndAll(ones, constraints.list, samples, 1)
               ELSE ones
        n == IF constraints.given THEN Len(constraints.list) ELSE 0
    IN  IF ind = NoValue THEN Outcome(ShapeError, NoValue, n, 0, <<>>)
        ELSE Outcome("none", ind, n, 0, <<>>)

(***************************************************************************)
(* compute_smoothed_feasibility_indicator.  eta is [tensor, v]: a float,   *)
(* the one entry of v, or a 1-dim tensor whose entries are the sequence v. *)
(***************************************************************************)
\* torch.full((len(constraints),), eta) unless eta is a Tensor already
EtaTensor(eta, k) == IF eta.tensor THEN eta.v ELSE [i \in 1..k |-> eta.v[1]]

EtaAllPositive_any(e) == \E i \in 1..Len(e) : e[i] > 0

\* (eta > 0).all()
EtaAllPositive(e) == \A i \in 1..Len(e) : e[i] > 0

AccStep_sub(acc, term) == Map2(LAMBDA a, b : a - b, acc, term)

\* is_feasible + log_sigmoid(...)
AccStep(acc, term) == Map2(Add, acc, term)

\* log_sigmoid(-constraint(samples) / e)
Term(c, e, samples, fat) ==
    IF fat THEN Map1(LAMBDA x : log_fatmoid(Div(-x, e)), ConEval(c, samples))
    ELSE Map1(LAMBDA x : logexpit(Div(-x, e)), ConEval(c, samples))

RECURSIVE Accumulate(_, _, _, _, _, _)
\* for constraint, e in zip(constraints, eta)
Accumulate(acc, constraints, e, samples, fat, i) ==
    IF i > Len(constraints) \/ i > Len(e) THEN acc
    ELSE Accumulate(AccStep(acc, Term(constraints[i], e[i], samples, fat)),
                    constraints, e, samples, fat, i + 1)

Smoothed(constraints, samples, e, log, fat) ==
    LET is_feasible == Accumulate(Full(Lead(samples.shape), 0), constraints, e,
                                  samples, fat, 1)
        n == Len(constraints)
    IN  IF is_feasible = NoValue THEN Outcome(ShapeError, NoValue, n, 0, <<>>)
        ELSE Outcome("none", IF log THEN is_feasible ELSE Map1(Exp, is_feasible),
                     n, 0, <<>>)

compute_smoothed_feasibility_indicator_signfirst(constraints, samples, eta, log, fat) ==
    LET e == EtaTensor(eta, Len(constraints))
    IN  IF ~EtaAllPositive(e) THEN Outcome(EtaNotPositive, NoValue, 0, 0, <<>>)
        ELSE IF Len(e) # Len(constraints)
        THEN Outcome(CountMismatch, NoValue, 0, 0, <<>>)
        ELSE Smoothed(constraints, samples, e, log, fat)

compute_smoothed_feasibility_indicator(constraints, samples, eta, log, fat) ==
    LET e == EtaTensor(eta, Len(constraints))
    IN  IF Len(e) # Len(constraints)
        THEN Outcome(CountMismatch, NoValue, 0, 0, <<>>)
        ELSE IF ~EtaAllPositive(e) THEN Outcome(EtaNotPositive, NoValue, 0, 0, <<>>)
        ELSE Smoothed(constraints, samples, e, log, fat)

(***************************************************************************)
(* apply_constraints_nonnegative_soft and apply_constraints.               *)
(***************************************************************************)
NeedsUnsqueeze_onemore(obj, samples) == Len(obj.shape) = Len(samples.shape) + 1

\* obj.dim() == samples.dim()
NeedsUnsqueeze(obj, samples) == Len(obj.shape) = Len(samples.shape)

Clamp_none(obj) == obj

\* obj.clamp_min(0)
Clamp(obj) == Map1(clamp_min0, obj)

apply_constraints_nonnegative_soft(obj, constraints, samples, eta) ==
    LET r == compute_smoothed_feasibility_indicator(constraints, samples, eta,
                                                    FALSE, FALSE)
        w == IF NeedsUnsqueeze(obj, samples) THEN unsqueeze(r.ret) ELSE r.ret
        prod == Map2(Mul, Clamp(obj), w)
    IN  IF r.raised # "none" THEN r
        ELSE IF prod = NoValue THEN Outcome(ShapeError, NoValue, r.ncalls, 0, w.shape)
        ELSE Outcome("none", prod, r.ncalls, 0, w.shape)

ShiftBack_none(t, infeasible_cost) == t

\* obj.add(-infeasible_cost)
ShiftBack(t, infeasible_cost) == Map1(LAMBDA x : x + (-infeasible_cost), t)

apply_constraints(obj, constraints, samples, infeasible_cost, eta) ==
    LET shifted == Map1(LAMBDA x : x + infeasible_cost, obj)
        r == apply_constraints_nonnegative_soft(shifted, constraints, samples, eta)
    IN  IF r.raised # "none" THEN r
        ELSE [r EXCEPT !.ret = ShiftBack(r.ret, infeasible_cost)]

(***************************************************************************)
(* soft_eval_constraint.  eta is a float.                                  *)
(***************************************************************************)
SoftArg_nosign(x, eta) == Div(x, eta)

\* -lhs / eta
SoftArg(x, eta) == Div(-x, eta)

soft_eval_constraint_checkfirst(lhs, eta) ==
    IF eta <= 0 THEN Outcome(EtaNotPositive, NoValue, 0, 0, <<>>)
    ELSE Outcome("none", Map1(LAMBDA x : sigmoid(SoftArg(x, eta)), lhs), 0, 1, <<>>)

soft_eval_constraint(lhs, eta) ==
    IF eta <= 0 THEN Outcome(EtaNotPositive, NoValue, 0, 1, <<>>)
    ELSE Outcome("none", Map1(LAMBDA x : sigmoid(SoftArg(x, eta)), lhs), 0, 1, <<>>)

(***************************************************************************)
(* The arguments of a call.                                                *)
(***************************************************************************)
Shapes(lo, hi) == UNION {[1..r -> 1..MaxDim] : r \in lo..hi}

\* batches of 1..MaxN elements whose values are enumerated: samples n x 1
Batches == {[shape |-> <<n, 1>>] : n \in 1..MaxN}

Vectors(n, vals) == {[shape |-> <<n>>, data |-> d] : d \in [1..n -> vals]}

\* feasible everywhere, on the boundary everywhere, infeasible at the odd elements
Callables == {Const(-Unit), Const(0), Alt(2 * Unit, -Unit)}

ConLists == UNION {[1..k -> Callables] : k \in 0..MaxK}

EtaVals == {-Unit, 0, 1, 2 * Unit}

PosEtaVals == {1, 2 * Unit}

Scalar(e) == [tensor |-> FALSE, v |-> <<e>>]

EtaTensors(vals, lo, hi) ==
    {[tensor |-> TRUE, v |-> s] : s \in UNION {[1..k -> vals] : k \in lo..hi}}

ObjVals == {-3 * Unit, -500, 1500}

CostVals == {-Unit, 0, 2 * Unit}

LhsVals == {-2 * Unit, -Unit, 0, 500, Unit}

WeightVals == {750, 250, -Unit}

WeightInputs ==
    {[given |-> FALSE, w |-> <<>>]}
    \cup {[given |-> TRUE, w |-> w] : w \in UNION {[1..m -> WeightVals] : m \in 1..MaxDim}}

InitTransform ==
    /\ op = "get_objective_weights_transform"
    /\ args \in {[weights |-> w, Y |-> Ramp(s, b), nargs |-> n] :
                    w \in WeightInputs, s \in Shapes(0, MaxRank),
                    b \in {-Unit, 2 * Unit}, n \in {1, 2}}

InitIndicator ==
    /\ op = "compute_feasibility_indicator"
    /\ args \in {[constraints |-> c, samples |-> [shape |-> s]] :
                    c \in {[given |-> FALSE, list |-> <<>>]}
                          \cup {[given |-> TRUE, list |-> l] : l \in ConLists},
                    s \in Shapes(1, MaxRank)}

InitSmoothed ==
    /\ op = "compute_smoothed_feasibility_indicator"
    /\ args \in {[constraints |-> c, samples |-> x, eta |-> e, log |-> l, fat |-> f] :
                    c \in ConLists, x \in Batches,
                    e \in {Scalar(v) : v \in EtaVals} \cup EtaTensors(EtaVals, 0, MaxK),
                    l \in BOOLEAN, f \in BOOLEAN}

\* objectives of any shape against sample batches of any shape
InitNonnegShapes ==
    /\ op = "apply_constraints_nonnegative_soft"
    /\ args \in {[obj |-> Ramp(s, b), constraints |-> c,
                  samples |-> [shape |-> t], eta |-> Scalar(2 * Unit)] :
                    s \in Shapes(0, MaxRank), b \in {-500}, t \in Shapes(1, MaxRank),
                    c \in {<<>>, <<Alt(2 * Unit, -Unit)>>}}

InitApply ==
    /\ op = "apply_constraints"
    /\ \E n \in 1..MaxN, c \in ConLists :
         args \in {[obj |-> o, constraints |-> c, samples |-> [shape |-> <<n, 1>>],
                    infeasible_cost |-> m, eta |-> e] :
                      o \in Vectors(n, ObjVals), m \in CostVals,
                      e \in {Scalar(v) : v \in EtaVals}
                            \cup EtaTensors(PosEtaVals, Len(c), Len(c))}

InitSoftEval ==
    /\ op = "soft_eval_constraint"
    /\ \E n \in 1..MaxN :
         args \in {[lhs |-> l, eta |-> e] : l \in Vectors(n, LhsVals), e \in EtaVals}

Init ==
    /\ pc = "ready"
    /\ out = NotCalled
    /\ \/ InitTransform
       \/ InitIndicator
       \/ InitSmoothed
       \/ InitNonnegShapes
       \/ InitApply
       \/ InitSoftEval

(***************************************************************************)
(* The calls.                                                              *)
(***************************************************************************)
CallTransformAction ==
    /\ pc = "ready" /\ op = "get_objective_weights_transform"
    /\ out' = CallTransform(get_objective_weights_transform(args.weights),
                            args.Y, args.nargs)
    /\ pc' = "done"
    /\ UNCHANGED <<op, args>>

CallIndicator ==
    /\ pc = "ready" /\ op = "compute_feasibility_indicator"
    /\ out' = compute_feasibility_indicator(args.constraints, args.samples)
    /\ pc' = "done"
    /\ UNCHANGED <<op, args>>

CallSmoothed ==
    /\ pc = "ready" /\ op = "compute_smoothed_feasibility_indicator"
    /\ out' = compute_smoothed_feasibility_indicator(
                  args.constraints, args.samples, args.eta, args.log, args.fat)
    /\ pc' = "done"
    /\ UNCHANGED <<op, args>>

CallNonnegSoft ==
    /\ pc = "ready" /\ op = "apply_constraints_nonnegative_soft"
    /\ out' = apply_constraints_nonnegative_soft(
                  args.obj, args.constraints, args.samples, args.eta)
    /\ pc' = "done"
    /\ UNCHANGED <<op, args>>

CallApply ==
    /\ pc = "ready" /\ op = "apply_constraints"
    /\ out' = apply_constraints(args.obj, args.constraints, args.samples,
                                args.infeasible_cost, args.eta)
    /\ pc' = "done"
    /\ UNCHANGED <<op, args>>

CallSoftEval ==
    /\ pc = "ready" /\ op = "soft_eval_constraint"
    /\ out' = soft_eval_constraint(args.lhs, args.eta)
    /\ pc' = "done"
    /\ UNCHANGED <<op, args>>

Next ==
    \/ CallTransformAction
    \/ CallIndicator
    \/ CallSmoothed
    \/ CallNonnegSoft
    \/ CallApply
    \/ CallSoftEval

Spec == Init /\ [][Next]_vars

Returned(f) == pc = "done" /\ op = f /\ out.raised = "none"

Raised(f) == pc = "done" /\ op = f /\ out.raised # "none"

(***************************************************************************)
(* Properties.                                                             *)
(***************************************************************************)
Elems(t) == 1..Len(t.data)

Close(a, b) == Abs(a - b) <= Tol

\* the temperature values the caller supplied
Supplied(eta) == {eta.v[i] : i \in 1..Len(eta.v)}

FeasibleEverywhere(list) == \A i \in 1..Len(list) : list[i] = Const(-Unit)

\* temperatures at which sigmoid(1 / eta) is 1 in floating point: eta <= 0.01
Saturating(eta) == \A e \in Supplied(eta) : e > 0 /\ e <= Unit \div 100

\* C1 as stated: with constraints that are feasible everywhere (each returns -1)
\* and positive temperatures, apply_constraints returns the objective unchanged,
\* within tolerance, at every element, whatever infeasible_cost and eta are.
C1_Unchanged ==
    (/\ Returned("apply_constraints")
     /\ Len(args.constraints) >= 1
     /\ FeasibleEverywhere(args.constraints)
     /\ \A e \in Supplied(args.eta) : e > 0)
    => \A j \in Elems(out.ret) : Close(out.ret.data[j], args.obj.data[j])

\* C1 as amended: with constraints that are feasible everywhere and positive
\* temperatures small enough for the weight to saturate, an element with
\* obj + infeasible_cost >= 0 is returned unchanged within tolerance, and an
\* element with obj + infeasible_cost < 0 is returned as -infeasible_cost.
C1_UnchangedWhenShiftedNonnegative ==
    (/\ Returned("apply_constraints")
     /\ FeasibleEverywhere(args.constraints)
     /\ Saturating(args.eta))
    => \A j \in Elems(out.ret) :
          IF args.obj.data[j] + args.infeasible_cost >= 0
          THEN Close(out.ret.data[j], args.obj.data[j])
          ELSE out.ret.data[j] = -args.infeasible_cost

C1_Witness ==
    /\ Returned("apply_constraints")
    /\ Len(args.constraints) = 2
    /\ FeasibleEverywhere(args.constraints)
    /\ Saturating(args.eta)
    /\ args.infeasible_cost = 2 * Unit
    /\ \E j \in Elems(out.ret) : args.obj.data[j] = -500 /\ out.ret.data[j] = -500

\* the eta array has as many entries as there are constraints (a float always has)
CountPasses == ~args.eta.tensor \/ Len(args.eta.v) = Len(args.constraints)

\* C2 as stated: a call of compute_smoothed_feasibility_indicator that passes the
\* count check and is given a temperature value <= 0 raises 'eta must be
\* positive', for a float and for an array, for every k >= 0.
C2_NonPositiveRaises ==
    (/\ pc = "done" /\ op = "compute_smoothed_feasibility_indicator"
     /\ CountPasses
     /\ \E e \in Supplied(args.eta) : e <= 0)
    => out.raised = EtaNotPositive

\* C2 as amended: such a call raises 'eta must be positive' when eta is an array,
\* and when eta is a float and there is at least one constraint; a float eta <= 0
\* with no constraint raises nothing and the call returns.
C2_NonPositiveRaisesUnlessNoConstraint ==
    (/\ pc = "done" /\ op = "compute_smoothed_feasibility_indicator"
     /\ CountPasses
     /\ \E e \in Supplied(args.eta) : e <= 0)
    => IF args.eta.tensor \/ Len(args.constraints) >= 1
       THEN out.raised = EtaNotPositive
       ELSE out.raised = "none"

C2_Witness ==
    /\ Raised("compute_smoothed_feasibility_indicator")
    /\ args.eta.tensor /\ Len(args.eta.v) = 2 /\ Len(args.constraints) = 2
    /\ args.eta.v[1] > 0 /\ args.eta.v[2] = 0
    /\ out.raised = EtaNotPositive

\* C3: a call of compute_smoothed_feasibility_indicator that fails validation has
\* invoked no constraint callable, and an eta array whose length differs from the
\* number of constraints is reported as a count mismatch even when it holds a
\* temperature <= 0.
C3_ValidationBeforeConstraints ==
    (pc = "done" /\ op = "compute_smoothed_feasibility_indicator")
    => /\ out.raised \in {CountMismatch, EtaNotPositive} => out.ncalls = 0
       /\ ~CountPasses => out.raised = CountMismatch
       /\ out.raised = "none" => out.ncalls = Len(args.constraints)

C3_Witness ==
    /\ Raised("compute_smoothed_feasibility_indicator")
    /\ Len(args.constraints) = 2
    /\ args.eta.tensor /\ Len(args.eta.v) = 1 /\ args.eta.v[1] < 0
    /\ out.raised = CountMismatch /\ out.ncalls = 0

\* C4: every element of the log=True output of
\* compute_smoothed_feasibility_indicator is <= 0 and every element of the
\* log=False output lies in [0, 1], with either kernel.
C4_IndicatorBound ==
    Returned("compute_smoothed_feasibility_indicator")
    => \A j \in Elems(out.ret) :
          IF args.log THEN out.ret.data[j] <= 0
          ELSE out.ret.data[j] >= 0 /\ out.ret.data[j] <= Unit

C4_Witness ==
    /\ Returned("compute_smoothed_feasibility_indicator")
    /\ Len(args.constraints) = 2 /\ args.fat /\ ~args.log
    /\ \E j \in Elems(out.ret) : out.ret.data[j] > 0 /\ out.ret.data[j] < Unit \div 2

Permutations(k) == {p \in [1..k -> 1..k] : \A i, j \in 1..k : p[i] = p[j] => i = j}

\* C5: compute_feasibility_indicator returns true at an element exactly when
\* every constraint is strictly negative there (all true when the list is empty
\* or None), and the result is the same for every order of the constraints.
C5_HardIndicator ==
    Returned("compute_feasibility_indicator")
    => LET list == args.constraints.list
       IN  /\ out.ret.shape = Lead(args.samples.shape)
           /\ \A j \in Elems(out.ret) :
                 out.ret.data[j] <=>
                    \A i \in 1..Len(list) : ConEval(list[i], args.samples).data[j] < 0
           /\ \A p \in Permutations(Len(list)) :
                 compute_feasibility_indicator(
                     [given |-> args.constraints.given,
                      list |-> [i \in 1..Len(list) |-> list[p[i]]]],
                     args.samples).ret = out.ret

C5_Witness ==
    /\ Returned("compute_feasibility_indicator")
    /\ args.constraints.given
    /\ args.constraints.list = <<Const(-Unit), Const(0)>>
    /\ \A j \in Elems(out.ret) : ~out.ret.data[j]

\* the smoothed indicator of the one constraint c(x) = lhs, non-log, non-fat
SingleSmoothed ==
    compute_smoothed_feasibility_indicator(
        <<Fixed(args.lhs)>>, [shape |-> Append(args.lhs.shape, 1)],
        Scalar(args.eta), FALSE, FALSE).ret

\* C6 as stated: for eta > 0, soft_eval_constraint(lhs, eta) is 1 minus the
\* single-constraint smoothed indicator, within tolerance.
C6_OneMinusSmoothed ==
    Returned("soft_eval_constraint")
    => \A j \in Elems(out.ret) :
          Close(out.ret.data[j], Unit - SingleSmoothed.data[j])

\* C6 as amended: for eta > 0, soft_eval_constraint(lhs, eta) is the
\* single-constraint smoothed indicator itself, within tolerance.
C6_EqualsSmoothed ==
    Returned("soft_eval_constraint")
    => /\ out.ret.shape = SingleSmoothed.shape
       /\ \A j \in Elems(out.ret) : Close(out.ret.data[j], SingleSmoothed.data[j])

C6_Witness ==
    /\ Returned("soft_eval_constraint")
    /\ args.eta = 2 * Unit
    /\ \E j \in Elems(out.ret) : args.lhs.data[j] = -Unit /\ out.ret.data[j] > 600
    /\ \E j \in Elems(out.ret) : args.lhs.data[j] = Unit /\ out.ret.data[j] < 400

\* Y has an outcome axis the transform can reduce: of size 1 when no weights are
\* given, of the size of the weight vector otherwise
WellFormedY ==
    /\ Len(args.Y.shape) >= 1
    /\ args.Y.shape[Len(args.Y.shape)]
         = (IF args.weights.given THEN Len(args.weights.w) ELSE 1)

\* C7: the callable of get_objective_weights_transform, with or without weights,
\* can be called as f(Y) and as f(Y, X); both calls return the same result, of
\* Y's shape without its last axis.
C7_AcceptsOptionalX ==
    (pc = "done" /\ op = "get_objective_weights_transform" /\ WellFormedY)
    => /\ out.raised = "none"
       /\ out.ret.shape = Lead(args.Y.shape)
       /\ args.nargs = 2 =>
             out = CallTransform(get_objective_weights_transform(args.weights),
                                 args.Y, 1)

Unsqueezed == out.wshape = Append(Lead(args.samples.shape), 1)

\* C8 as stated: in apply_constraints_nonnegative_soft the weight gets a trailing
\* singleton axis exactly when the objective has one more axis than the sample
\* batch, and the output of an accepted call has the objective's shape.
C8_UnsqueezeWhenOneMoreAxis ==
    Returned("apply_constraints_nonnegative_soft")
    => /\ Unsqueezed <=> Len(args.obj.shape) = Len(args.samples.shape) + 1
       /\ out.ret.shape = args.obj.shape

\* the objective is n_samples x b x q or n_samples x b x q x m' for samples
\* n_samples x b x q x m
DocumentedObjShape ==
    \/ args.obj.shape = Lead(args.samples.shape)
    \/ /\ Len(args.obj.shape) = Len(args.samples.shape)
       /\ Lead(args.obj.shape) = Lead(args.samples.shape)

\* C8 as amended: the weight gets a trailing singleton axis exactly when the
\* objective has as many axes as the sample batch; the output of an accepted
\* call has the shape the objective and the weight broadcast to, which is the
\* objective's shape when the objective is the sample batch without its outcome
\* axis, or that followed by an axis of its own.
C8_UnsqueezeWhenSameRank ==
    Returned("apply_constraints_nonnegative_soft")
    => /\ Unsqueezed <=> Len(args.obj.shape) = Len(args.samples.shape)
       /\ ~Unsqueezed => out.wshape = Lead(args.samples.shape)
       /\ out.ret.shape = BShape(args.obj.shape, out.wshape)
       /\ DocumentedObjShape => out.ret.shape = args.obj.shape

C8_Witness ==
    /\ Returned("apply_constraints_nonnegative_soft")
    /\ Len(args.constraints) = 1
    /\ args.samples.shape = <<2, 2, 1>>
    /\ args.obj.shape = <<2, 2, 2>>
    /\ out.wshape = <<2, 2, 1>>
    /\ out.ret.shape = <<2, 2, 2>>

\* C9: every call of soft_eval_constraint emits the deprecation warning, also a
\* call rejected because eta <= 0, and a call with eta <= 0 returns no value.
C9_AlwaysWarns ==
    (pc = "done" /\ op = "soft_eval_constraint")
    => /\ out.nwarn = 1
       /\ args.eta <= 0 => out.raised = EtaNotPositive /\ out.ret = NoValue
       /\ args.eta > 0 => out.raised = "none"

C9_Witness ==
    /\ Raised("soft_eval_constraint")
    /\ args.eta = 0
    /\ out.nwarn = 1 /\ out.raised = EtaNotPositive

====
